---- MODULE Spec2Model ----
(***************************************************************************)
(* Model of js/main.js: the publication renderer of the CV page.           *)
(*                                                                         *)
(* Text that the script transforms character by character (citations, the  *)
(* generated_utc timestamp) is a sequence of one-character strings; text   *)
(* that is only copied (labels, urls, settings) is a TLA+ string.          *)
(* A JSON value found where an array is expected is a record               *)
(* [kind, items]; items is the array's content and <<>> for other kinds.   *)
(***************************************************************************)
EXTENDS Integers, Sequences, FiniteSets, TLC

VARIABLES
  siteConfig,    \* the two profile settings; "" stands for an unset (falsy) setting
  body,          \* what data/publications.json holds on the server
  tabs,          \* data-tab keys of the host page's .tab controls
  pc,            \* position of main(): "start", "fetching", "parsing", "done"
  loadResult,    \* how main's try block ended: "none" (not yet), "ok" (it completed),
                 \* "rejected", "notok", "badjson" (loadPublications threw), "initfault" (initTabs threw)
  mainPromise,   \* "pending", "fulfilled", "rejected"
  yearText,      \* textContent of #year
  scholarLink,   \* [href, textContent] of #scholarLink
  orcidLink,     \* [href, textContent] of #orcidLink
  pubList,       \* children of #pubList
  pubUpdated,    \* textContent of #pubUpdated
  tabActive,     \* the tabs whose classList holds "active"
  listeners,     \* the tabs that have a click listener
  pubData,       \* <<>> before initTabs, <<document>> once initTabs captured it
  active,        \* the variable `active` of initTabs' closure
  lastClick,     \* the tab of the latest click event, "none" before any
  renderKey,     \* tabKey of the latest renderPublications call, "none" before any
  renderFault,   \* the latest renderPublications call threw
  handlerFault   \* the latest click listener threw

vars == <<siteConfig, body, tabs, pc, loadResult, mainPromise, yearText, scholarLink,
          orcidLink, pubList, pubUpdated, tabActive, listeners, pubData, active,
          lastClick, renderKey, renderFault, handlerFault>>

-----------------------------------------------------------------------------
(* Bounds *)

\* longest citation drawn for the escaping specification
MaxLen == 4
\* most records in one document
MaxRecs == 2

-----------------------------------------------------------------------------
(* escapeHtml, main.js 10-17 *)

Amp == <<"&", "a", "m", "p", ";">>
Lt == <<"&", "l", "t", ";">>
Gt == <<"&", "g", "t", ";">>
Quot == <<"&", "q", "u", "o", "t", ";">>
Apos == <<"&", "#", "3", "9", ";">>

\* String.prototype.replaceAll with a one-character pattern
RECURSIVE replaceAll(_, _, _)
replaceAll(str, ch, rep) ==
  IF str = <<>> THEN <<>>
  ELSE (IF Head(str) = ch THEN rep ELSE <<Head(str)>>) \o replaceAll(Tail(str), ch, rep)

escapeHtml_AmpLast(str) ==
  replaceAll(replaceAll(replaceAll(replaceAll(replaceAll(str,
    "<", Lt), ">", Gt), "\"", Quot), "'", Apos), "&", Amp)

escapeHtml(str) ==
  replaceAll(replaceAll(replaceAll(replaceAll(replaceAll(str,
    "&", Amp), "<", Lt), ">", Gt), "\"", Quot), "'", Apos)

\* String.prototype.replace with a one-character pattern: the first match only
RECURSIVE replaceFirst(_, _, _)
replaceFirst(str, ch, rep) ==
  IF str = <<>> THEN <<>>
  ELSE IF Head(str) = ch THEN rep \o Tail(str)
  ELSE <<Head(str)>> \o replaceFirst(Tail(str), ch, rep)

-----------------------------------------------------------------------------
(* JSON values and the publications document *)

Undefined == [kind |-> "undefined", items |-> <<>>]
Null == [kind |-> "null", items |-> <<>>]
Zero == [kind |-> "zero", items |-> <<>>]
Number == [kind |-> "number", items |-> <<>>]
String == [kind |-> "string", items |-> <<>>]
Object == [kind |-> "object", items |-> <<>>]
Function == [kind |-> "function", items |-> <<>>]
Array(s) == [kind |-> "array", items |-> s]

\* JavaScript truthiness of a value
Truthy(v) == v.kind \in {"number", "string", "object", "function", "array"}

\* v has a callable forEach
HasForEach(v) == v.kind = "array"

Or_Nullish(a, b) == IF a.kind \in {"undefined", "null"} THEN b ELSE a

\* a || b
Or(a, b) == IF Truthy(a) THEN a ELSE b

GroupKeys == {"journals", "conferences", "book_chapters"}

\* properties every object literal inherits from Object.prototype
ProtoFunctions == {"constructor", "toString", "valueOf", "hasOwnProperty"}

\* it.url: a missing url, an empty one, a link target
NoUrl == [present |-> FALSE, href |-> ""]
EmptyUrl == [present |-> TRUE, href |-> ""]
Url(u) == [present |-> TRUE, href |-> u]
UrlTruthy(u) == u.present /\ u.href # ""

-----------------------------------------------------------------------------
(* renderPublications, main.js 50-102 *)

\* the anchor appended to .pub-links when it.url is truthy (80-87)
LinksFor_Always(it) ==
  <<[href |-> it.url.href, text |-> "DOI", target |-> "_blank", rel |-> "noreferrer"]>>

LinksFor(it) ==
  IF UrlTruthy(it.url)
  THEN <<[href |-> it.url.href, text |-> "DOI", target |-> "_blank", rel |-> "noreferrer"]>>
  ELSE <<>>

\* the <li> built for one record (63-93); cit is the innerHTML given to .pub-cit
RenderItem(it) ==
  [className |-> "pub-item", tag |-> it.label, cit |-> escapeHtml(it.citation),
   links |-> LinksFor(it)]

RenderItems_Prepend(items) ==
  [i \in 1..Len(items) |-> RenderItem(items[Len(items) + 1 - i])]

\* items.forEach(...): one <li> appended per record, in order (62-94)
RenderItems(items) == [i \in 1..Len(items) |-> RenderItem(items[i])]

\* pubData.<key> || [] (55-57)
GroupOf(doc, key) == Or(doc[key], Array(<<>>))

\* groups[tabKey]: an own property, else what Object.prototype provides (60)
GroupsGet(doc, tabKey) ==
  IF tabKey \in GroupKeys THEN GroupOf(doc, tabKey)
  ELSE IF tabKey \in ProtoFunctions THEN Function
  ELSE IF tabKey = "__proto__" THEN Object
  ELSE Undefined

\* const items = groups[tabKey] || [] (60)
ItemsOf(doc, tabKey) == Or(GroupsGet(doc, tabKey), Array(<<>>))

\* the freshness line (96-101); an absent or empty generated_utc is <<>>
UpdatedText(doc) ==
  IF doc.generated_utc # <<>>
  THEN <<"Last updated ">>
         \o replaceFirst(replaceFirst(doc.generated_utc, "T", <<" ">>), "Z", <<" ", "U", "T", "C">>)
  ELSE <<>>

renderPublications_NoClear(doc, tabKey, list, updated) ==
  IF HasForEach(ItemsOf(doc, tabKey))
  THEN [pubList |-> list \o RenderItems(ItemsOf(doc, tabKey).items),
        pubUpdated |-> UpdatedText(doc), fault |-> FALSE]
  ELSE [pubList |-> list, pubUpdated |-> updated, fault |-> TRUE]

\* What one call leaves in #pubList and #pubUpdated, and whether it threw.
\* The list is emptied first (52); items.forEach throws a TypeError when items
\* is not an array, before anything is appended and before line 96.
renderPublications(doc, tabKey, list, updated) ==
  IF HasForEach(ItemsOf(doc, tabKey))
  THEN [pubList |-> RenderItems(ItemsOf(doc, tabKey).items),
        pubUpdated |-> UpdatedText(doc), fault |-> FALSE]
  ELSE [pubList |-> <<>>, pubUpdated |-> updated, fault |-> TRUE]

\* the static item main() writes when loading or initialization throws (130)
Notice ==
  [className |-> "pub-item", tag |-> "info",
   cit |-> <<"Publications could not be loaded. Check data/publications.json.">>,
   links |-> <<>>]

CatchList_Append(list) == Append(list, Notice)

\* list.innerHTML = "<li ...>" in the catch block (129-130)
CatchList(list) == <<Notice>>

-----------------------------------------------------------------------------
(* setProfileLinks, main.js 19-39 *)

ScholarLinkFor(cfg) ==
  IF cfg.scholarProfileUrl # ""
  THEN [href |-> cfg.scholarProfileUrl, textContent |-> "Open profile"]
  ELSE [href |-> "#",
        textContent |-> "https://scholar.google.com/citations?user=pbAP-VQAAAAJ&hl=en"]

OrcidLinkFor_ScholarTest(cfg) ==
  IF cfg.scholarProfileUrl # ""
  THEN [href |-> "https://orcid.org/" \o cfg.orcidId, textContent |-> cfg.orcidId]
  ELSE [href |-> "#", textContent |-> "Add your ORCID"]

OrcidLinkFor(cfg) ==
  IF cfg.orcidId # ""
  THEN [href |-> "https://orcid.org/" \o cfg.orcidId, textContent |-> cfg.orcidId]
  ELSE [href |-> "#", textContent |-> "Add your ORCID"]

-----------------------------------------------------------------------------
(* The inputs: settings, documents, host pages *)

\* siteConfig as the source sets it (1-4)
SourceConfig ==
  [scholarProfileUrl |-> "https://scholar.google.com/citations?user=pbAP-VQAAAAJ&hl=en",
   orcidId |-> "0000-0002-8696-0920"]

\* the settings an operator may leave in siteConfig
Configs ==
  [scholarProfileUrl : {"", SourceConfig.scholarProfileUrl, "https://scholar.example/u"},
   orcidId : {"", SourceConfig.orcidId, "0000-0001-2345-6789"}]

Records ==
  { [label |-> "j2", citation |-> <<"a", "<", "b", ">">>, url |-> Url("https://doi.org/10.1/x")],
    [label |-> "j1", citation |-> <<"&", "l", "t", ";">>, url |-> NoUrl],
    [label |-> "c1", citation |-> <<"\"", "q", "'">>, url |-> EmptyUrl] }

BoundedSeq(S, n) == UNION {[1..k -> S] : k \in 0..n}

NonArrays == {Undefined, Null, Zero, Number, String, Object}

GroupValues == NonArrays \cup {Array(s) : s \in BoundedSeq(Records, MaxRecs)}

Stamp == <<"1", "T", "2", "Z">>

\* the group is absent or an array, as the producer of the document writes it
WellFormed(v) == v.kind \in {"array", "undefined"}

\* documents of at most MaxRecs records, of which at most one group holds
\* something else than an array
Docs ==
  { d \in [journals : GroupValues, conferences : GroupValues,
           book_chapters : GroupValues, generated_utc : {<<>>, Stamp}] :
      /\ Len(d.journals.items) + Len(d.conferences.items) + Len(d.book_chapters.items)
           <= MaxRecs
      /\ \A j, k \in GroupKeys : j # k => WellFormed(d[j]) \/ WellFormed(d[k]) }

Alphabet == {"&", "<", ">", "\"", "'", "l", "t", ";"}

\* documents whose one journal record carries any citation of up to MaxLen characters
CitationDocs ==
  { [journals |-> Array(<<[label |-> "j1", citation |-> c, url |-> NoUrl]>>),
     conferences |-> Undefined, book_chapters |-> Array(<<>>), generated_utc |-> <<>>] :
      c \in BoundedSeq(Alphabet, MaxLen) }

\* what the host page may hold in #pubList before the script runs
Placeholder == [className |-> "pub-item", tag |-> "", cit |-> <<"Loading">>, links |-> <<>>]

\* host pages: the data-tab keys of the .tab controls and the initial #pubList
PlainHost == [tabs |-> GroupKeys, list |-> <<>>]
ExtendedHost == [tabs |-> GroupKeys \cup {"constructor", "reviews"}, list |-> <<Placeholder>>]
JournalsHost == [tabs |-> {"journals"}, list |-> <<Placeholder>>]

InitWith(configs, bodies, hosts) ==
  /\ siteConfig \in configs
  /\ body \in bodies
  /\ \E h \in hosts : tabs = h.tabs /\ pubList = h.list
  /\ pc = "start"
  /\ loadResult = "none"
  /\ mainPromise = "pending"
  /\ yearText = ""
  /\ scholarLink = [href |-> "#", textContent |-> ""]
  /\ orcidLink = [href |-> "#", textContent |-> ""]
  /\ pubUpdated = <<>>
  /\ tabActive = {"journals"}
  /\ listeners = {}
  /\ pubData = <<>>
  /\ active = "none"
  /\ lastClick = "none"
  /\ renderKey = "none"
  /\ renderFault = FALSE
  /\ handlerFault = FALSE

Init == InitWith({SourceConfig}, Docs, {PlainHost, ExtendedHost})

-----------------------------------------------------------------------------
(* main, loadPublications, initTabs: main.js 41-48, 104-132 *)

CurrentYear == "2026"

MainStart_WiresTabs ==
  /\ pc = "start"
  /\ yearText' = CurrentYear
  /\ scholarLink' = ScholarLinkFor(siteConfig)
  /\ orcidLink' = OrcidLinkFor(siteConfig)
  /\ pc' = "fetching"
  /\ listeners' = tabs
  /\ pubData' = <<body>>
  /\ UNCHANGED <<siteConfig, body, tabs, loadResult, mainPromise, pubList, pubUpdated,
                 tabActive, active, lastClick, renderKey, renderFault, handlerFault>>

\* main() up to its first await: the year, the profile links, the fetch is issued (122-126, 42-43)
MainStart ==
  /\ pc = "start"
  /\ yearText' = CurrentYear
  /\ scholarLink' = ScholarLinkFor(siteConfig)
  /\ orcidLink' = OrcidLinkFor(siteConfig)
  /\ pc' = "fetching"
  /\ UNCHANGED <<siteConfig, body, tabs, loadResult, mainPromise, pubList, pubUpdated,
                 tabActive, listeners, pubData, active, lastClick, renderKey,
                 renderFault, handlerFault>>

\* the catch block of main() (128-131), after which main's promise is fulfilled
Catch(result) ==
  /\ pubList' = CatchList(pubList)
  /\ loadResult' = result
  /\ pc' = "done"
  /\ mainPromise' = "fulfilled"
  /\ UNCHANGED <<siteConfig, body, tabs, yearText, scholarLink, orcidLink, pubUpdated,
                 tabActive, listeners, pubData, active, lastClick, renderKey,
                 renderFault, handlerFault>>

\* fetch(url) rejects (43)
FetchReject == pc = "fetching" /\ Catch("rejected")

\* the response arrives with ok false: loadPublications throws (44-46)
ResponseNotOk == pc = "fetching" /\ Catch("notok")

\* the response arrives with ok true: res.json() is awaited (47)
ResponseOk ==
  /\ pc = "fetching"
  /\ pc' = "parsing"
  /\ UNCHANGED <<siteConfig, body, tabs, loadResult, mainPromise, yearText, scholarLink,
                 orcidLink, pubList, pubUpdated, tabActive, listeners, pubData, active,
                 lastClick, renderKey, renderFault, handlerFault>>

\* res.json() rejects: the body is not JSON (47)
JsonFail == pc = "parsing" /\ Catch("badjson")

\* tabs.forEach(t => t.classList.toggle("active", t.dataset.tab === key)) (110)
MarkActive(marks, key) == {t \in tabs : t = key}

\* res.json() resolves and initTabs(pubData) runs inside the try block (126-127):
\* a listener on every tab (114-116), then setActive("journals") (118); a throw
\* of renderPublications leaves initTabs and is caught by main (128-131)
JsonOk ==
  /\ pc = "parsing"
  /\ LET r == renderPublications(body, "journals", pubList, pubUpdated) IN
       /\ pubData' = <<body>>
       /\ listeners' = tabs
       /\ active' = "journals"
       /\ tabActive' = MarkActive(tabActive, "journals")
       /\ renderKey' = "journals"
       /\ renderFault' = r.fault
       /\ pubList' = IF r.fault THEN CatchList(r.pubList) ELSE r.pubList
       /\ pubUpdated' = r.pubUpdated
  /\ loadResult' = IF renderPublications(body, "journals", pubList, pubUpdated).fault
                   THEN "initfault" ELSE "ok"
  /\ pc' = "done"
  /\ mainPromise' = "fulfilled"
  /\ UNCHANGED <<siteConfig, body, tabs, yearText, scholarLink, orcidLink, lastClick,
                 handlerFault>>

\* a click on the tab t: its listener, if it has one, runs setActive(t.dataset.tab)
\* (108-112, 115); a throw of renderPublications leaves the listener uncaught
Click(t) ==
  /\ pc # "start"
  /\ lastClick' = t
  /\ IF t \in listeners
     THEN LET r == renderPublications(pubData[1], t, pubList, pubUpdated) IN
            /\ active' = t
            /\ tabActive' = MarkActive(tabActive, t)
            /\ renderKey' = t
            /\ renderFault' = r.fault
            /\ handlerFault' = r.fault
            /\ pubList' = r.pubList
            /\ pubUpdated' = r.pubUpdated
     ELSE UNCHANGED <<active, tabActive, renderKey, renderFault, handlerFault, pubList,
                      pubUpdated>>
  /\ UNCHANGED <<siteConfig, body, tabs, pc, loadResult, mainPromise, yearText,
                 scholarLink, orcidLink, listeners, pubData>>

Next ==
  \/ MainStart
  \/ FetchReject
  \/ ResponseNotOk
  \/ ResponseOk
  \/ JsonFail
  \/ JsonOk
  \/ \E t \in tabs : Click(t)

Spec == Init /\ [][Next]_vars

\* the same program, its settings drawn from what an operator may configure
ProfileDocs == {d \in Docs : d.generated_utc = <<>> /\ d.journals = Undefined /\ d.conferences = Undefined}
InitProfile == InitWith(Configs, ProfileDocs, {PlainHost})
SpecProfile == InitProfile /\ [][Next]_vars

\* the same program, served documents that carry every short citation
InitCitation == InitWith({SourceConfig}, CitationDocs, {JournalsHost})
SpecCitation == InitCitation /\ [][Next]_vars

-----------------------------------------------------------------------------
(* What a reader of the page sees *)

IsPrefix(p, s) == Len(p) <= Len(s) /\ SubSeq(s, 1, Len(p)) = p
Drop(s, n) == SubSeq(s, n + 1, Len(s))

\* the text a browser displays for markup that holds no tags: the five
\* character references are replaced by their characters, left to right
RECURSIVE Decode(_)
Decode(s) ==
  IF s = <<>> THEN <<>>
  ELSE IF IsPrefix(Amp, s) THEN <<"&">> \o Decode(Drop(s, Len(Amp)))
  ELSE IF IsPrefix(Lt, s) THEN <<"<">> \o Decode(Drop(s, Len(Lt)))
  ELSE IF IsPrefix(Gt, s) THEN <<">">> \o Decode(Drop(s, Len(Gt)))
  ELSE IF IsPrefix(Quot, s) THEN <<"\"">> \o Decode(Drop(s, Len(Quot)))
  ELSE IF IsPrefix(Apos, s) THEN <<"'">> \o Decode(Drop(s, Len(Apos)))
  ELSE <<Head(s)>> \o Decode(Tail(s))

\* the records of a group: its array, and none when the group is no array
SeqOf(doc, key) == IF doc[key].kind = "array" THEN doc[key].items ELSE <<>>

\* list shows exactly the records of seq, in order
ListShows(list, seq) ==
  /\ Len(list) = Len(seq)
  /\ \A i \in 1..Len(seq) :
       /\ list[i].tag = seq[i].label
       /\ Decode(list[i].cit) = seq[i].citation

LoadFailed == loadResult \in {"rejected", "notok", "badjson"}
NoticeShown == loadResult \in {"rejected", "notok", "badjson", "initfault"}
Pending == pc \in {"fetching", "parsing"}
HostOf == CHOOSE h \in {PlainHost, ExtendedHost, JournalsHost} : h.tabs = tabs

-----------------------------------------------------------------------------
(* Claims *)

\* C1: after renderPublications(pubData, key) for a group key whose value is
\* an array or absent, the list holds one item per record of the group, in the
\* group's order, item i carrying record i's label and citation; an absent
\* key gives no items, and the call does not throw.
C1_RenderInOrder ==
  (renderKey \in GroupKeys /\ pubData # <<>>
     /\ pubData[1][renderKey].kind \in {"array", "undefined"})
  => /\ ~renderFault
     /\ ListShows(pubList, SeqOf(pubData[1], renderKey))

C1_Witness ==
  /\ renderKey = "conferences"
  /\ pubData # <<>>
  /\ pubData[1].conferences.kind = "array"
  /\ pubData[1].journals.kind = "undefined"
  /\ Len(pubList) = 2
  /\ pubList[1].tag # pubList[2].tag

\* C2: when main's try block completed and the page has one tab per group
\* key, every state initTabs and the clicks after it lead to has exactly one
\* active tab, the one clicked last (journals after initTabs itself), and the
\* list shows the records of that tab's group and nothing else.
C2_Step ==
  (loadResult' = "ok" /\ tabs' = GroupKeys)
  => /\ Cardinality(tabActive') = 1
     /\ tabActive' = {IF pc = "parsing" THEN "journals" ELSE lastClick'}
     /\ \A t \in tabActive' : ListShows(pubList', SeqOf(pubData'[1], t))

C2_OneActiveTab == [][C2_Step]_vars

C2_Witness ==
  /\ loadResult = "ok"
  /\ tabs = GroupKeys
  /\ lastClick = "book_chapters"
  /\ tabActive = {"book_chapters"}
  /\ pubData[1].journals.kind = "array"
  /\ Len(pubData[1].journals.items) = 1
  /\ Len(pubData[1].book_chapters.items) = 1
  /\ Len(pubList) = 1

\* C3: when fetch rejects, the response is not ok or the body is no JSON,
\* main() has finished, its promise is fulfilled (nothing propagates), and
\* the list holds the one notice item and nothing else.
C3_FailedLoadNotice ==
  LoadFailed => pc = "done" /\ mainPromise = "fulfilled" /\ pubList = <<Notice>>

C3_Witness ==
  /\ loadResult = "badjson"
  /\ HostOf.list # <<>>
  /\ pubList = <<Notice>>

\* C4: the markup escapeHtml gives for a citation holds none of < > " ',
\* each & in it starts one of the five character references, and the text it
\* displays is the citation.
C4_EscapeSafe ==
  (loadResult = "ok" /\ renderKey = "journals")
  => LET c == pubData[1].journals.items[1].citation
         out == pubList[1].cit
     IN /\ \A i \in 1..Len(out) : out[i] \notin {"<", ">", "\"", "'"}
        /\ \A i \in 1..Len(out) :
             out[i] = "&" => \E e \in {Amp, Lt, Gt, Quot, Apos} : IsPrefix(e, Drop(out, i - 1))
        /\ Decode(out) = c

C4_Witness ==
  /\ loadResult = "ok"
  /\ renderKey = "journals"
  /\ pubData[1].journals.items[1].citation = <<"&", "l", "t", ";">>
  /\ pubList[1].cit = <<"&", "a", "m", "p", ";", "l", "t", ";">>

\* C5: in a rendered list, the item of a record lacking url (url absent or
\* empty) has no link, and the item of a record with a url has exactly one
\* link, with text DOI and that url as its target.
C5_DoiLink ==
  (renderKey \in GroupKeys /\ pubData # <<>> /\ ~renderFault)
  => LET seq == SeqOf(pubData[1], renderKey) IN
       /\ Len(pubList) = Len(seq)
       /\ \A i \in 1..Len(seq) :
            IF seq[i].url.href = ""
            THEN pubList[i].links = <<>>
            ELSE /\ Len(pubList[i].links) = 1
                 /\ pubList[i].links[1].text = "DOI"
                 /\ pubList[i].links[1].href = seq[i].url.href

C5_Witness ==
  /\ renderKey = "journals"
  /\ ~renderFault
  /\ Len(pubList) = 2
  /\ pubList[1].links = <<>>
  /\ Len(pubList[2].links) = 1
  /\ pubData[1].journals.items[1].url = EmptyUrl

\* C6: once setProfileLinks has run, each profile link follows its own
\* setting: a set scholarProfileUrl gives the scholar link that target and
\* the text Open profile, a set orcidId gives the ORCID link the target
\* https://orcid.org/<orcidId> and the id as text, an unset setting gives
\* its link the target # and a prompt text; main's promise is not rejected.
C6_ProfileLinks ==
  pc # "start"
  => /\ IF siteConfig.scholarProfileUrl # ""
        THEN scholarLink.href = siteConfig.scholarProfileUrl
             /\ scholarLink.textContent = "Open profile"
        ELSE scholarLink.href = "#"
             /\ scholarLink.textContent
                  = "https://scholar.google.com/citations?user=pbAP-VQAAAAJ&hl=en"
     /\ IF siteConfig.orcidId # ""
        THEN orcidLink.href = "https://orcid.org/" \o siteConfig.orcidId
             /\ orcidLink.textContent = siteConfig.orcidId
        ELSE orcidLink.href = "#"
             /\ orcidLink.textContent = "Add your ORCID"
     /\ mainPromise # "rejected"

C6_Witness ==
  /\ pc # "start"
  /\ siteConfig.orcidId = ""
  /\ siteConfig.scholarProfileUrl # ""
  /\ scholarLink.textContent = "Open profile"
  /\ orcidLink.href = "#"

\* C7 (as claimed): renderPublications with a key that is no group key
\* leaves the list empty and does not throw.
C7_UnknownKeyEmpty ==
  (renderKey \notin GroupKeys \cup {"none"}) => pubList = <<>> /\ ~renderFault

\* C8 (as claimed): rendering a group whose value is present and not an
\* array throws.
C8_NonArrayFaults ==
  (renderKey \in GroupKeys /\ pubData # <<>>
     /\ pubData[1][renderKey].kind \notin {"array", "undefined"})
  => renderFault

\* C8 (amended): rendering a group whose value is a truthy non-array (a
\* nonzero number, a non-empty string, an object) throws; rendering a group
\* whose value is falsy (null, 0) renders no item and does not throw.
C8_TruthyNonArrayFaults ==
  (renderKey \in GroupKeys /\ pubData # <<>>)
  => /\ pubData[1][renderKey].kind \in {"number", "string", "object"} => renderFault
     /\ pubData[1][renderKey].kind \in {"null", "zero"}
          => ~renderFault /\ pubList = <<>>

C8_Witness ==
  /\ renderKey = "conferences"
  /\ pubData # <<>>
  /\ pubData[1].conferences = Object
  /\ Len(pubData[1].journals.items) = 2
  /\ renderFault
  /\ handlerFault
  /\ pubList = <<>>

\* C9: a tab has a click listener only once the document was fetched and
\* parsed; while the load is pending no tab has one, the list and the active
\* marks are those of the host page, and no step, a click included, changes
\* the list or the marks.
C9_PendingStep ==
  (Pending /\ pc' \in {"fetching", "parsing"})
  => pubList' = pubList /\ tabActive' = tabActive /\ listeners' = {}

C9_NoClicksWhilePending ==
  /\ [](listeners # {} => loadResult \in {"ok", "initfault"})
  /\ [](Pending => listeners = {} /\ pubList = HostOf.list /\ tabActive = {"journals"})
  /\ [][C9_PendingStep]_vars

C9_Witness ==
  /\ pc = "fetching"
  /\ lastClick = "conferences"
  /\ pubList = <<Placeholder>>

\* C10 (as claimed): once main() is done, either the tabs are wired and no
\* notice was shown, or the notice was shown, no tab has a listener and the
\* list is the single notice, whatever was clicked since.
C10_NoPartialSuccess ==
  pc = "done"
  => IF NoticeShown
     THEN listeners = {} /\ pubList = <<Notice>>
     ELSE listeners = tabs

====
